---- MODULE Spec2Model ----
(***************************************************************************)
(* Model of the batch judge server (src/server.js, second program of the   *)
(* file, lines 229-384): the Piston-compatible execute endpoint, the batch *)
(* executor handleBatchExecution and the process runner runCommand.        *)
(*                                                                         *)
(* A request handler is a little sequential program whose position is      *)
(* job[j].pc; child processes, the scratch directory and the files in it   *)
(* are the environment.  Wall-clock values (timeMs) are not modelled.      *)
(***************************************************************************)
EXTENDS Integers, Sequences, FiniteSets, TLC

VARIABLES job, dirs, fsys, nextId

vars == <<job, dirs, fsys, nextId>>

(***************************************************************************)
(* Bounds of the model.                                                    *)
(***************************************************************************)
MaxFiles == 2
MaxInputs == 2

BSeq(S, n) == UNION {[1..k -> S] : k \in 0..n}

SoloJobs == {1}
Jobs == {1, 2}

(***************************************************************************)
(* File names.  A name is split into the directory part, the stem and the  *)
(* extension, so that endsWith and path.join can be computed.  The empty   *)
(* name stands for an absent (or empty, equally falsy) name.               *)
(***************************************************************************)
Name(d, s, e) == [dir |-> d, stem |-> s, ext |-> e]
NoName == Name("", "", "")

FileNames == {NoName, Name("", "sol", "py"), Name("", "app", "js"),
              Name("..", "sol", "py"), Name("sub", "sol", "py")}

InputVals == {"", "a"}
StdinVals == {"", "s"}
Langs == {"cpp", "C++", "java", "python", "javascript", "node", "ruby"}
\* 0 stands for an absent timeout (Number(undefined) is NaN, falsy like 0)
TimeoutVals == {0, 250, -1}

Request(l, fs, ins, sin, ct, rt) ==
    [language |-> l, files |-> fs, inputs |-> ins, stdin |-> sin,
     compile_timeout |-> ct, run_timeout |-> rt]

\* Requests that vary the batch and the timeouts, with one unnamed file.
RunRequests ==
    {Request(l, fs, ins, "s", t[1], t[2]) :
        l \in Langs, fs \in {<<NoName>>},
        ins \in BSeq(InputVals, MaxInputs),
        t \in {<<0, 0>>, <<250, 250>>, <<-1, 0>>, <<0, -1>>}}

\* Requests that vary the files, with the single stdin as the batch.
FileRequests ==
    {Request(l, fs, <<>>, sin, 0, 0) :
        l \in Langs, fs \in BSeq(FileNames, MaxFiles), sin \in StdinVals}

Requests == RunRequests \cup FileRequests

\* The requests of the runs with two requests in flight: a compiled and an
\* interpreted job, a file named into the first workspace directory, an
\* unsupported language, and the two invalid timeouts.
ConcRequests ==
    {Request("cpp", <<NoName>>, <<"a">>, "", 0, 0),
     Request("python", <<NoName>>, <<>>, "s", 0, 0),
     Request("python", <<Name("../1", "main", "cpp")>>, <<>>, "s", 0, 0),
     Request("ruby", <<>>, <<>>, "", 0, 0),
     Request("cpp", <<NoName>>, <<>>, "", -1, 0),
     Request("python", <<Name("sub", "sol", "py")>>, <<>>, "", 0, -1),
     Request("python", <<>>, <<>>, "", 0, -1)}

(***************************************************************************)
(* runCommand: the result of one process invocation.                       *)
(***************************************************************************)
TimeoutCode == 124
TimeLimitExceeded == "Time limit exceeded"
DefaultCompileTimeout == 10000
DefaultRunTimeout == 3000

\* A result object; inv is the number of the process invocation it came
\* from (0: no process), kept to relate results to invocations.
Result(out, err, c, i) == [stdout |-> out, stderr |-> err, code |-> c, inv |-> i]

\* How a child process ends.  kind "exit": the process exited with code;
\* "signal": it was terminated by signal; "maxbuf": its output went over
\* maxBuffer and exec gave up on it; "spawnerr": the process could not be
\* started and the child emitted 'error' (its code is a string like EAGAIN).
Ending(k, c, sig, out, err) ==
    [kind |-> k, code |-> c, signal |-> sig, stdout |-> out, stderr |-> err]
NoEnding == Ending("none", 0, "", "", "")

\* The endings of a process the timer has not fired for.
OwnEndings ==
    {Ending("exit", 0, "", "out", ""),
     Ending("exit", 1, "", "out", "err"),
     Ending("exit", TimeoutCode, "", "", TimeLimitExceeded),
     Ending("signal", 0, "SIGKILL", "out", ""),
     Ending("maxbuf", 0, "", "trunc", ""),
     Ending("spawnerr", 0, "", "", "")}

\* The endings of a process after exec's timer sent it SIGTERM: it dies of
\* the signal, or it handles the signal and exits later by itself.
KilledEndings ==
    {Ending("signal", 0, "SIGTERM", "", ""),
     Ending("exit", 0, "", "", ""),
     Ending("exit", 1, "", "", "err")}

\* The error object exec hands to the callback.  code is a number only for
\* an exit with a non-zero code (null for a signal, a string for maxBuffer);
\* killed is whether exec itself killed the child.
NoError ==
    [isError |-> FALSE, codeIsNumber |-> FALSE, code |-> 0,
     killed |-> FALSE, signal |-> ""]

ExecError(e, killed) ==
    CASE e.kind \in {"maxbuf", "spawnerr"} ->
            [isError |-> TRUE, codeIsNumber |-> FALSE, code |-> 0,
             killed |-> FALSE, signal |-> ""]
      [] e.kind = "signal" ->
            [isError |-> TRUE, codeIsNumber |-> FALSE, code |-> 0,
             killed |-> killed, signal |-> e.signal]
      [] e.kind = "exit" /\ e.code # 0 ->
            [isError |-> TRUE, codeIsNumber |-> TRUE, code |-> e.code,
             killed |-> killed, signal |-> ""]
      [] OTHER -> NoError

\* The test of the timeout branch of the callback.
IsTimeoutError(error) ==
    error.isError /\ error.killed /\ error.signal = "SIGTERM"

\* The callback of exec in runCommand.
RunCommandResult(error, stdout, stderr, inv) ==
    IF IsTimeoutError(error)
    THEN Result("", TimeLimitExceeded, TimeoutCode, inv)
    ELSE Result(stdout, stderr,
                IF error.isError /\ error.codeIsNumber THEN error.code ELSE 0,
                inv)

\* exec validates its options before it spawns: a timeout that is not a
\* non-negative integer makes it throw, and the promise of runCommand rejects.
ExecThrows(timeoutMs) == timeoutMs < 0

\* A process started by runCommand.  stdin is the text written to its
\* standard input ("" when nothing was written); the stream is then ended.
Proc(kind, cmd, cwd, timeoutMs, inputStr) ==
    [kind |-> kind, cmd |-> cmd, cwd |-> cwd, timeout |-> timeoutMs,
     stdin |-> inputStr, stdinClosed |-> TRUE,
     state |-> "running", killed |-> FALSE, ending |-> NoEnding]

(***************************************************************************)
(* handleBatchExecution: names, commands, paths.                           *)
(***************************************************************************)
Cmd(exe, file) == [exe |-> exe, file |-> file]
NoCmd == Cmd("", NoName)

DefaultName(language) ==
    CASE language = "cpp" -> Name("", "main", "cpp")
      [] language = "python" -> Name("", "main", "py")
      [] language = "java" -> Name("", "Main", "java")
      [] language = "javascript" -> Name("", "main", "js")
      [] OTHER -> NoName

ResolveName(language, name) ==
    IF name = NoName THEN DefaultName(language) ELSE name

HasCompile(language) == language \in {"cpp", "java"}

CompileCmd(language) ==
    IF language = "cpp" THEN Cmd("g++", Name("", "*", "cpp"))
    ELSE Cmd("javac", Name("", "*", "java"))

RunCmd(language) ==
    CASE language = "cpp" -> Cmd("./main", NoName)
      [] language = "java" -> Cmd("java", Name("", "Main", ""))
      [] language = "python" -> Cmd("python3", Name("", "main", "py"))
      [] language \in {"javascript", "node"} -> Cmd("node", Name("", "main", "js"))
      [] OTHER -> NoCmd

DefaultCompileRes == Result("", "", 0, 0)

CompileFailedExitOne(compileRes) == compileRes.code = 1

CompileFailed(compileRes) == compileRes.code # 0

\* The scratch root EXEC_DIR is directory 0; workspace directories are > 0.
ExecDir == 0

\* The directory parts that name a workspace directory from inside another
\* one ("../<id>"), with the workspace they name.
SiblingDirs == {"../1", "../2"}
SiblingOf(d) == IF d = "../1" THEN 1 ELSE 2

\* path.join(jobDir, name): ".." leaves the job directory for its parent,
\* "../<id>" for the workspace directory <id>.
PathJoin(jobDir, name) ==
    CASE name.dir = ".." ->
            [ws |-> ExecDir, sub |-> "", stem |-> name.stem, ext |-> name.ext]
      [] name.dir \in SiblingDirs ->
            [ws |-> SiblingOf(name.dir), sub |-> "", stem |-> name.stem,
             ext |-> name.ext]
      [] OTHER ->
            [ws |-> jobDir, sub |-> name.dir, stem |-> name.stem,
             ext |-> name.ext]

\* writeFileSync throws when the directory of the path does not exist.
WriteThrows(existing, path) ==
    path.sub # "" \/ (path.ws # ExecDir /\ path.ws \notin existing)

WriteFileKeepFirst(files, path, content) ==
    IF \E f \in files : f.ws = path.ws /\ f.stem = path.stem /\ f.ext = path.ext
    THEN files
    ELSE files \cup {[ws |-> path.ws, stem |-> path.stem, ext |-> path.ext,
                      content |-> content]}

\* fs.writeFileSync(path, content): creates the file or replaces its content
WriteFile(files, path, content) ==
    {f \in files : ~(f.ws = path.ws /\ f.stem = path.stem /\ f.ext = path.ext)}
    \cup {[ws |-> path.ws, stem |-> path.stem, ext |-> path.ext,
           content |-> content]}

PushResultFront(results, runRes) == <<runRes>> \o results

\* results.push(runRes)
PushResult(results, runRes) == Append(results, runRes)

(***************************************************************************)
(* The request handler: normalisation of the request.                      *)
(***************************************************************************)
ToLowerCase(s) == IF s = "C++" THEN "c++" ELSE s

SupportedLanguages == {"cpp", "c++", "python", "java", "javascript", "node", "js"}

Normalize(language) ==
    CASE language = "c++" -> "cpp"
      [] language \in {"node", "js"} -> "javascript"
      [] OTHER -> language

BatchInputs(inputs, stdin) == IF Len(inputs) > 0 THEN inputs ELSE <<stdin>>

NumberOr(x, default) == IF x = 0 THEN default ELSE x

DefaultRun == Result("", "", 0, 0)

LegacyRunLast(results) ==
    IF Len(results) > 0 THEN results[Len(results)] ELSE DefaultRun

\* legacyRun: the first result, or a placeholder when there is none
LegacyRun(results) == IF Len(results) > 0 THEN results[1] ELSE DefaultRun

(***************************************************************************)
(* State.  job[j] is the state of the handler of request j; dirs is the    *)
(* set of workspace directories that exist under EXEC_DIR; fsys the files  *)
(* on disk; nextId the source of fresh identifiers (uuidv4).               *)
(***************************************************************************)
NoResponse ==
    [status |-> 0, compilePresent |-> FALSE, compile |-> DefaultCompileRes,
     run |-> DefaultRun, results |-> <<>>, error |-> ""]

ErrorResponse(status, message) ==
    [status |-> status, compilePresent |-> FALSE, compile |-> DefaultCompileRes,
     run |-> DefaultRun, results |-> <<>>, error |-> message]

\* res.json({ language, compile, run, results })
JobResponse(ret) ==
    [status |-> 200, compilePresent |-> TRUE, compile |-> ret.compile,
     run |-> LegacyRun(ret.results), results |-> ret.results, error |-> ""]

IdleJob ==
    [pc |-> "idle", req |-> Request("", <<>>, <<>>, "", 0, 0),
     language |-> "", files |-> <<>>, batchInputs |-> <<>>,
     compile_timeout |-> 0, run_timeout |-> 0, jobId |-> 0,
     fileIdx |-> 1, compileRes |-> DefaultCompileRes, runCmd |-> NoCmd,
     idx |-> 1, results |-> <<>>,
     ret |-> [compile |-> DefaultCompileRes, results |-> <<>>],
     procs |-> <<>>, response |-> NoResponse,
     created |-> FALSE, releases |-> 0, rmFailed |-> FALSE,
     rejected |-> FALSE]

Init ==
    /\ job = [j \in Jobs |-> IdleJob]
    /\ dirs = {}
    /\ fsys = {}
    /\ nextId = 1

Running(j) == {i \in 1..Len(job[j].procs) : job[j].procs[i].state = "running"}

(***************************************************************************)
(* The request handler, up to the call of handleBatchExecution.            *)
(***************************************************************************)
\* The body is destructured and normalised.
ReceiveFrom(j, requests) ==
    /\ job[j].pc = "idle"
    /\ \E r \in requests :
          job' = [job EXCEPT ![j].pc = "alloc", ![j].req = r,
                             ![j].language = ToLowerCase(r.language),
                             ![j].files = r.files,
                             ![j].batchInputs = BatchInputs(r.inputs, r.stdin),
                             ![j].compile_timeout =
                                 NumberOr(r.compile_timeout, DefaultCompileTimeout),
                             ![j].run_timeout =
                                 NumberOr(r.run_timeout, DefaultRunTimeout)]
    /\ UNCHANGED <<dirs, fsys, nextId>>

Receive(j) == ReceiveFrom(j, Requests)

ConcReceive(j) == ReceiveFrom(j, ConcRequests)

\* jobId = uuidv4(); fs.mkdirSync(jobDir)
Alloc(j) ==
    /\ job[j].pc = "alloc"
    /\ job' = [job EXCEPT ![j].pc = "check", ![j].jobId = nextId,
                          ![j].created = TRUE]
    /\ dirs' = dirs \cup {nextId}
    /\ nextId' = nextId + 1
    /\ UNCHANGED fsys

\* mkdirSync throws: it is outside the try block, so the handler ends with
\* neither a response nor the finally block.
AllocFails(j) ==
    /\ job[j].pc = "alloc"
    /\ job' = [job EXCEPT ![j].pc = "unhandled", ![j].jobId = nextId]
    /\ nextId' = nextId + 1
    /\ UNCHANGED <<dirs, fsys>>

AfterRejectNoFinally == "done"

\* Where the handler goes after return res.status(400): the finally block.
AfterReject == "finally"

Reject(j) ==
    /\ job[j].pc = "check"
    /\ job[j].language \notin SupportedLanguages
    /\ job' = [job EXCEPT ![j].pc = AfterReject,
                          ![j].response = ErrorResponse(400, "Unsupported language")]
    /\ UNCHANGED <<dirs, fsys, nextId>>

Accept(j) ==
    /\ job[j].pc = "check"
    /\ job[j].language \in SupportedLanguages
    /\ job' = [job EXCEPT ![j].pc = "write",
                          ![j].language = Normalize(job[j].language)]
    /\ UNCHANGED <<dirs, fsys, nextId>>

(***************************************************************************)
(* handleBatchExecution.                                                   *)
(***************************************************************************)
Content(j, i) == [job |-> j, file |-> i]

FilePath(j) ==
    PathJoin(job[j].jobId, ResolveName(job[j].language, job[j].files[job[j].fileIdx]))

\* One iteration of the loop that writes the files.
WriteOne(j) ==
    /\ job[j].pc = "write"
    /\ job[j].fileIdx <= Len(job[j].files)
    /\ ~WriteThrows(dirs, FilePath(j))
    /\ fsys' = WriteFile(fsys, FilePath(j), Content(j, job[j].fileIdx))
    /\ job' = [job EXCEPT ![j].fileIdx = @ + 1]
    /\ UNCHANGED <<dirs, nextId>>

WriteFails(j) ==
    /\ job[j].pc = "write"
    /\ job[j].fileIdx <= Len(job[j].files)
    /\ WriteThrows(dirs, FilePath(j))
    /\ job' = [job EXCEPT ![j].pc = "catch"]
    /\ UNCHANGED <<dirs, fsys, nextId>>

FilesWritten(j) == job[j].pc = "write" /\ job[j].fileIdx > Len(job[j].files)

\* compileRes = await runCommand(<compile command>, jobDir, compileTimeout)
StartCompile(j) ==
    /\ FilesWritten(j)
    /\ HasCompile(job[j].language)
    /\ ~ExecThrows(job[j].compile_timeout)
    /\ job' = [job EXCEPT ![j].pc = "awaitCompile",
                  ![j].procs = Append(@, Proc("compile", CompileCmd(job[j].language),
                                              job[j].jobId, job[j].compile_timeout, ""))]
    /\ UNCHANGED <<dirs, fsys, nextId>>

CompileRejects(j) ==
    /\ FilesWritten(j)
    /\ HasCompile(job[j].language)
    /\ ExecThrows(job[j].compile_timeout)
    /\ job' = [job EXCEPT ![j].pc = "catch", ![j].rejected = TRUE]
    /\ UNCHANGED <<dirs, fsys, nextId>>

\* A language without a compile phase: compileRes keeps its initial value.
SkipCompile(j) ==
    /\ FilesWritten(j)
    /\ ~HasCompile(job[j].language)
    /\ job' = [job EXCEPT ![j].pc = "checkCompile",
                          ![j].runCmd = RunCmd(job[j].language)]
    /\ UNCHANGED <<dirs, fsys, nextId>>

\* The timer of exec fires while the child runs: exec sends it SIGTERM.
Deadline(j) ==
    /\ \E i \in Running(j) :
          /\ ~job[j].procs[i].killed
          /\ job' = [job EXCEPT ![j].procs[i].killed = TRUE]
    /\ UNCHANGED <<dirs, fsys, nextId>>

EndingsOf(p) == IF p.killed THEN KilledEndings ELSE OwnEndings

ResultOf(p, e, i) ==
    RunCommandResult(ExecError(e, p.killed), e.stdout, e.stderr, i)

\* The compile process ends, the callback resolves the promise and the
\* handler resumes after its await.
CompileDone(j) ==
    /\ job[j].pc = "awaitCompile"
    /\ \E i \in Running(j) : \E e \in EndingsOf(job[j].procs[i]) :
          job' = [job EXCEPT ![j].pc = "checkCompile",
                     ![j].procs[i].state = "exited",
                     ![j].procs[i].ending = e,
                     ![j].compileRes = ResultOf(job[j].procs[i], e, i),
                     ![j].runCmd = RunCmd(job[j].language)]
    /\ UNCHANGED <<dirs, fsys, nextId>>

\* if (compileRes.code !== 0) return { compile: compileRes, results: [] }
FailEarly(j) ==
    /\ job[j].pc = "checkCompile"
    /\ CompileFailed(job[j].compileRes)
    /\ job' = [job EXCEPT ![j].pc = "respond",
                  ![j].ret = [compile |-> job[j].compileRes, results |-> <<>>]]
    /\ UNCHANGED <<dirs, fsys, nextId>>

BeginRuns(j) ==
    /\ job[j].pc = "checkCompile"
    /\ ~CompileFailed(job[j].compileRes)
    /\ job' = [job EXCEPT ![j].pc = "run"]
    /\ UNCHANGED <<dirs, fsys, nextId>>

MoreInputsDropLast(idx, results, inputs) == idx < Len(inputs)

MoreInputsStopOnFailure(idx, results, inputs) ==
    /\ idx <= Len(inputs)
    /\ (IF results = <<>> THEN TRUE ELSE results[Len(results)].code = 0)

\* for (const input of inputs): is there another input to run?
MoreInputs(idx, results, inputs) == idx <= Len(inputs)

AwaitRunMissing == "run"

\* The handler waits for the promise of runCommand before it goes on.
AwaitRun == "awaitRun"

StartRun(j) ==
    /\ job[j].pc = "run"
    /\ MoreInputs(job[j].idx, job[j].results, job[j].batchInputs)
    /\ ~ExecThrows(job[j].run_timeout)
    /\ job' = [job EXCEPT ![j].pc = AwaitRun,
                  ![j].procs = Append(@, Proc("run", job[j].runCmd, job[j].jobId,
                                              job[j].run_timeout,
                                              job[j].batchInputs[job[j].idx]))]
    /\ UNCHANGED <<dirs, fsys, nextId>>

RunRejects(j) ==
    /\ job[j].pc = "run"
    /\ MoreInputs(job[j].idx, job[j].results, job[j].batchInputs)
    /\ ExecThrows(job[j].run_timeout)
    /\ job' = [job EXCEPT ![j].pc = "catch", ![j].rejected = TRUE]
    /\ UNCHANGED <<dirs, fsys, nextId>>

RunDone(j) ==
    /\ job[j].pc = "awaitRun"
    /\ \E i \in Running(j) : \E e \in EndingsOf(job[j].procs[i]) :
          job' = [job EXCEPT ![j].pc = "run",
                     ![j].procs[i].state = "exited",
                     ![j].procs[i].ending = e,
                     ![j].results = PushResult(@, ResultOf(job[j].procs[i], e, i)),
                     ![j].idx = @ + 1]
    /\ UNCHANGED <<dirs, fsys, nextId>>

\* return { compile: compileRes, results }
Return(j) ==
    /\ job[j].pc = "run"
    /\ ~MoreInputs(job[j].idx, job[j].results, job[j].batchInputs)
    /\ job' = [job EXCEPT ![j].pc = "respond",
                  ![j].ret = [compile |-> job[j].compileRes,
                              results |-> job[j].results]]
    /\ UNCHANGED <<dirs, fsys, nextId>>

(***************************************************************************)
(* The request handler, after handleBatchExecution.                        *)
(***************************************************************************)
Respond(j) ==
    /\ job[j].pc = "respond"
    /\ job' = [job EXCEPT ![j].pc = "finally",
                          ![j].response = JobResponse(job[j].ret)]
    /\ UNCHANGED <<dirs, fsys, nextId>>

\* catch (err): res.status(500)
Catch(j) ==
    /\ job[j].pc = "catch"
    /\ job' = [job EXCEPT ![j].pc = "finally",
                          ![j].response = ErrorResponse(500, "fault")]
    /\ UNCHANGED <<dirs, fsys, nextId>>

\* finally: fs.rmSync(jobDir, { recursive: true, force: true })
Cleanup(j) ==
    /\ job[j].pc = "finally"
    /\ job' = [job EXCEPT ![j].pc = "done", ![j].releases = @ + 1]
    /\ dirs' = dirs \ {job[j].jobId}
    /\ fsys' = {f \in fsys : f.ws # job[j].jobId}
    /\ UNCHANGED nextId

\* rmSync throws and the empty catch swallows it: the directory stays.
CleanupFails(j) ==
    /\ job[j].pc = "finally"
    /\ job' = [job EXCEPT ![j].pc = "done", ![j].releases = @ + 1,
                          ![j].rmFailed = TRUE]
    /\ UNCHANGED <<dirs, fsys, nextId>>

Next ==
    \E j \in SoloJobs :
        \/ Receive(j) \/ Alloc(j) \/ AllocFails(j) \/ Reject(j) \/ Accept(j)
        \/ WriteOne(j) \/ WriteFails(j)
        \/ StartCompile(j) \/ CompileRejects(j) \/ SkipCompile(j)
        \/ Deadline(j) \/ CompileDone(j) \/ FailEarly(j) \/ BeginRuns(j)
        \/ StartRun(j) \/ RunRejects(j) \/ RunDone(j) \/ Return(j)
        \/ Respond(j) \/ Catch(j) \/ Cleanup(j) \/ CleanupFails(j)

Spec == Init /\ [][Next]_vars

\* Two requests handled at the same time: the steps of their handlers
\* interleave at every await and at every event of a child process.
ConcNext ==
    \E j \in Jobs :
        \/ ConcReceive(j) \/ Alloc(j) \/ AllocFails(j) \/ Reject(j) \/ Accept(j)
        \/ WriteOne(j) \/ WriteFails(j)
        \/ StartCompile(j) \/ CompileRejects(j) \/ SkipCompile(j)
        \/ Deadline(j) \/ CompileDone(j) \/ FailEarly(j) \/ BeginRuns(j)
        \/ StartRun(j) \/ RunRejects(j) \/ RunDone(j) \/ Return(j)
        \/ Respond(j) \/ Catch(j) \/ Cleanup(j) \/ CleanupFails(j)

ConcSpec == Init /\ [][ConcNext]_vars

\* The event loop runs every continuation that is ready, and (the premise
\* of the termination claim) every child process ends.
LiveSpec == Spec /\ WF_vars(Next)

(***************************************************************************)
(* The main file the single-run handlers (handlePython, handleJS of the    *)
(* first program of the file) pass to the interpreter.                     *)
(***************************************************************************)
MainFile(files, default) ==
    LET named(i) == IF files[i] = NoName THEN default ELSE files[i]
        hits == {i \in 1..Len(files) : named(i).ext = default.ext}
    IN  IF hits = {} THEN default
        ELSE named(CHOOSE i \in hits : \A k \in hits : k <= i)

(***************************************************************************)
(* The single-run endpoint of the first program of the file: what its      *)
(* handlers (handleCPP, handlePython, handleJava, handleJS) return for the *)
(* lower-cased language, given the results of its compile and run          *)
(* commands, and what the endpoint answers with.                           *)
(***************************************************************************)
LegacyResult(language, compileRes, runRes) ==
    IF language \in {"cpp", "c++", "java"}
    THEN IF compileRes.code # 0
         THEN [compilePresent |-> TRUE, compile |-> compileRes,
               runPresent |-> FALSE, run |-> DefaultRun]
         ELSE [compilePresent |-> TRUE, compile |-> compileRes,
               runPresent |-> TRUE, run |-> runRes]
    ELSE [compilePresent |-> FALSE, compile |-> DefaultCompileRes,
          runPresent |-> TRUE, run |-> runRes]

(***************************************************************************)
(* Properties.                                                             *)
(***************************************************************************)
Procs(j) == job[j].procs
RunProcs(j) == {i \in 1..Len(Procs(j)) : Procs(j)[i].kind = "run"}
CompileProcs(j) == {i \in 1..Len(Procs(j)) : Procs(j)[i].kind = "compile"}
Exited(j) == {i \in 1..Len(Procs(j)) : Procs(j)[i].state = "exited"}

\* handleBatchExecution has returned its value
Returned(j) == job[j].pc = "respond" \/ job[j].response.status = 200

\* the batch the request submits
Submitted(j) ==
    IF Len(job[j].req.inputs) > 0 THEN job[j].req.inputs
    ELSE <<job[j].req.stdin>>

CompiledLanguage(j) == job[j].language \in {"cpp", "java"}
Sentinel(r) == r.code = 124 /\ r.stderr = "Time limit exceeded"

\* C1: once handleBatchExecution has returned, the number of run results is
\* the number of batch inputs if the compile process exited with code 0 or
\* the language has no compile phase, and it is 0 if the compile step ended
\* with a non-zero code.
C1_ResultCount ==
    \A j \in Jobs : Returned(j) =>
        /\ (~CompiledLanguage(j)
              \/ \E i \in CompileProcs(j) :
                    /\ Procs(j)[i].ending.kind = "exit"
                    /\ Procs(j)[i].ending.code = 0)
           => Len(job[j].ret.results) = Len(Submitted(j))
        /\ (\E i \in CompileProcs(j) :
                /\ Procs(j)[i].ending.kind = "exit"
                /\ Procs(j)[i].ending.code # 0)
           => Len(job[j].ret.results) = 0
        /\ job[j].ret.compile.code # 0 => Len(job[j].ret.results) = 0

C1_Witness ==
    \E j \in Jobs :
        /\ job[j].response.status = 200
        /\ CompiledLanguage(j)
        /\ job[j].ret.compile.code = 0
        /\ Len(job[j].ret.results) >= 2
        /\ Len(job[j].ret.results) = Len(job[j].req.inputs)

\* C2: at every moment the i-th run result is the result of the process
\* that was fed the i-th submitted input; the results follow the order of
\* the invocations, none is duplicated, and no finished run is left out.
C2_OrderPreserved ==
    \A j \in Jobs :
        LET rs == job[j].results IN
        /\ Len(rs) <= Len(Submitted(j))
        /\ \A i \in 1..Len(rs) :
              /\ rs[i].inv \in RunProcs(j) \cap Exited(j)
              /\ Procs(j)[rs[i].inv].stdin = Submitted(j)[i]
              /\ rs[i] = ResultOf(Procs(j)[rs[i].inv],
                                  Procs(j)[rs[i].inv].ending, rs[i].inv)
        /\ \A i, k \in 1..Len(rs) : i < k => rs[i].inv < rs[k].inv
        /\ RunProcs(j) \cap Exited(j) = {rs[i].inv : i \in 1..Len(rs)}
        /\ Returned(j) => job[j].ret.results = rs
        /\ job[j].response.status = 200 => job[j].response.results = rs

C2_Witness ==
    \E j \in Jobs :
        /\ job[j].response.status = 200
        /\ Len(job[j].response.results) = 2
        /\ job[j].req.inputs[1] # job[j].req.inputs[2]
        /\ Sentinel(job[j].response.results[1])
        /\ Procs(j)[job[j].response.results[1].inv].ending.signal = "SIGTERM"
        /\ job[j].response.results[2].code = 0

\* C3: a request whose language is not an accepted tag never has a
\* workspace directory created for it, and is answered with status 400.
C3_RejectBeforeWorkspace ==
    \A j \in Jobs :
        (job[j].pc # "idle"
            /\ ToLowerCase(job[j].req.language) \notin SupportedLanguages)
        => /\ ~job[j].created
           /\ job[j].response.status \in {0, 400}

\* C4 as stated: a job whose workspace was allocated has released it exactly
\* once when the handler has finished, and the directory is gone.
C4_ReleasedAndGone ==
    \A j \in Jobs :
        (job[j].created /\ job[j].pc = "done")
        => job[j].releases = 1 /\ job[j].jobId \notin dirs

\* C4 amended: a job whose workspace was allocated attempts the release
\* exactly once on every exit path, never before the handler is done with
\* the job; when the handler has finished the directory is gone unless the
\* deletion itself failed; and the release step leaves the response as it
\* was sent.
C4_ReleasedOnce ==
    /\ [](\A j \in Jobs : job[j].created =>
            /\ job[j].releases = (IF job[j].pc = "done" THEN 1 ELSE 0)
            /\ job[j].pc = "done" =>
                  /\ job[j].response.status \in {200, 400, 500}
                  /\ job[j].jobId \in dirs <=> job[j].rmFailed)
    /\ [][\A j \in Jobs : job[j].pc = "finally" =>
            job'[j].response = job[j].response]_vars

C4_Witness ==
    \E j \in Jobs :
        /\ job[j].pc = "done"
        /\ job[j].created
        /\ job[j].releases = 1
        /\ job[j].response.status = 500
        /\ job[j].jobId \notin dirs

\* C5: a process that was still running when its deadline passed was
\* terminated by the signal and its result is the timeout sentinel.
C5_DeadlineGivesSentinel ==
    \A j \in Jobs : \A i \in Exited(j) :
        Procs(j)[i].killed
        => /\ Procs(j)[i].ending.kind = "signal"
           /\ Sentinel(ResultOf(Procs(j)[i], Procs(j)[i].ending, i))

\* C6: when the compile result has a non-zero code (the sentinel 124
\* included) no run process is ever spawned, and the value returned and the
\* response carry that compile result and an empty run sequence.
C6_CompileFailureShortCircuits ==
    \A j \in Jobs :
        job[j].compileRes.code # 0
        => /\ RunProcs(j) = {}
           /\ job[j].pc \in {"checkCompile", "respond", "finally", "done"}
           /\ Returned(j) =>
                 /\ job[j].ret.compile = job[j].compileRes
                 /\ job[j].ret.results = <<>>
           /\ job[j].pc \in {"finally", "done"} =>
                 /\ job[j].response.status = 200
                 /\ job[j].response.compile = job[j].compileRes
                 /\ job[j].response.results = <<>>

C6_Witness ==
    \E j \in Jobs :
        /\ job[j].pc = "done"
        /\ Sentinel(job[j].response.compile)
        /\ \E i \in CompileProcs(j) : Procs(j)[i].killed
        /\ job[j].response.results = <<>>
        /\ Len(job[j].batchInputs) = 2

\* C7: a run result with a non-zero code (a timeout or a failure) at a
\* position before the last one is followed by the run of the next input:
\* either the loop is about to spawn it or its process exists; and the
\* result at that position is the one of the process run for that input.
C7_FailureDoesNotStopBatch ==
    \A j \in Jobs : \A i \in 1..Len(job[j].results) :
        (job[j].results[i].code # 0 /\ i < Len(job[j].batchInputs))
        => /\ \/ /\ job[j].pc = "run"
                 /\ job[j].idx = i + 1
                 /\ Len(job[j].results) = i
              \/ \E p \in RunProcs(j) :
                    /\ p > job[j].results[i].inv
                    /\ Cardinality({q \in RunProcs(j) : q <= p}) = i + 1
                    /\ Procs(j)[p].stdin = job[j].batchInputs[i + 1]
           /\ Cardinality({q \in RunProcs(j) : q <= job[j].results[i].inv}) = i

C7_Witness ==
    \E j \in Jobs :
        /\ job[j].pc = "done"
        /\ Len(job[j].response.results) = 2
        /\ job[j].response.results[1].code = 1
        /\ job[j].response.results[2].code = 0
        /\ job[j].response.results[2].stdout = "out"

\* C8: at most one child process of a job is alive; at most one compile
\* process is spawned and it has ended before any run process exists; a run
\* process is spawned only when every earlier run has ended and delivered
\* its result; and a job answered 200 after a successful compile has spawned
\* one run process per input, plus one compile process for cpp and java.
C8_Sequential ==
    \A j \in Jobs :
        /\ Cardinality(Running(j)) <= 1
        /\ Cardinality(CompileProcs(j)) <= 1
        /\ \A c \in CompileProcs(j) : \A r \in RunProcs(j) :
              c < r /\ c \in Exited(j)
        /\ \A r, q \in RunProcs(j) : r < q => r \in Exited(j)
        /\ Cardinality(RunProcs(j)) \in {Len(job[j].results), Len(job[j].results) + 1}
        /\ (job[j].response.status = 200 /\ job[j].response.compile.code = 0)
           => /\ Cardinality(RunProcs(j)) = Len(job[j].batchInputs)
              /\ Cardinality(CompileProcs(j)) = (IF CompiledLanguage(j) THEN 1 ELSE 0)

C8_Witness ==
    \E j \in Jobs :
        /\ job[j].pc = "done"
        /\ job[j].response.status = 200
        /\ CompiledLanguage(j)
        /\ Cardinality(CompileProcs(j)) = 1
        /\ Cardinality(RunProcs(j)) = 2

\* C9: for python and javascript every run process is given the last
\* submitted file with the extension of the language, or the default file
\* of the language when there is none.
C9_MainFileResolved ==
    \A j \in Jobs : \A i \in RunProcs(j) :
        job[j].language \in {"python", "javascript"}
        => Procs(j)[i].cmd.file =
              MainFile(job[j].req.files, DefaultName(job[j].language))

\* C10: a 200 response has a compile field exactly when the language of the
\* job has a compile phase.
C10_CompileOnlyWhenCompiled ==
    \A j \in Jobs :
        job[j].response.status = 200
        => (job[j].response.compilePresent <=> CompiledLanguage(j))

\* C11 as stated: in every 200 response the run field is the first element
\* of results, and a request without inputs has exactly one result after a
\* successful compile.
C11_RunIsFirstResult ==
    \A j \in Jobs : job[j].response.status = 200 =>
        /\ Len(job[j].response.results) >= 1
        /\ job[j].response.run = job[j].response.results[1]

\* C11 amended: in every 200 response with a non-empty results the run field
\* is results[1], the result of the process fed the first batch input; with
\* an empty results (the compile failed) run is the placeholder with code 0
\* and empty streams; and for a request whose inputs is absent or empty the
\* batch is [stdin], so that after a compile with code 0 results has exactly
\* one element, the run fed stdin.
C11_RunIsFirstResultOrPlaceholder ==
    \A j \in Jobs : job[j].response.status = 200 =>
        LET rs == job[j].response.results IN
        /\ rs # <<>> =>
              /\ job[j].response.run = rs[1]
              /\ rs[1].inv \in RunProcs(j)
              /\ \A q \in RunProcs(j) : rs[1].inv <= q
              /\ Procs(j)[rs[1].inv].stdin = Submitted(j)[1]
        /\ rs = <<>> =>
              /\ job[j].response.compile.code # 0
              /\ job[j].response.run = [stdout |-> "", stderr |-> "",
                                        code |-> 0, inv |-> 0]
        /\ (Len(job[j].req.inputs) = 0 /\ job[j].response.compile.code = 0) =>
              /\ Len(rs) = 1
              /\ Procs(j)[rs[1].inv].stdin = job[j].req.stdin

C11_Witness ==
    \E j \in Jobs :
        /\ job[j].response.status = 200
        /\ Len(job[j].response.results) = 2
        /\ job[j].response.results[1] # job[j].response.results[2]
        /\ job[j].response.results[1].code = 1
        /\ job[j].response.run.code = 1

\* a fault of the engine happened while the request was handled
Faulted(j) ==
    \/ job[j].pc \in {"unhandled", "catch"}
    \/ job[j].rejected
    \/ job[j].response.status = 500
    \/ \E i \in Exited(j) : Procs(j)[i].ending.kind = "spawnerr"

Finished(j) == job[j].pc \in {"done", "unhandled"}

\* C12: when the handler has finished the request has its response, and a
\* request during which an engine fault happened (a file write or a spawn
\* failed, the workspace could not be created) is answered with status 500
\* and has released the workspace it allocated.
C12_FaultGives500 ==
    \A j \in Jobs : Finished(j) =>
        /\ job[j].response.status \in {200, 400, 500}
        /\ Faulted(j) =>
              /\ job[j].response.status = 500
              /\ job[j].created => job[j].releases = 1

\* C13: a process whose output went over the buffer ceiling never gives a
\* result with code 0.
C13_OverflowIsFailure ==
    \A j \in Jobs : \A i \in Exited(j) :
        Procs(j)[i].ending.kind = "maxbuf"
        => ResultOf(Procs(j)[i], Procs(j)[i].ending, i).code # 0

\* C14: the jobs that have a workspace have different workspace
\* directories, every identifier handed out is a new one, and every file
\* in a workspace directory was written by the job that owns the directory.
C14_WorkspacesIsolated ==
    /\ \A j, k \in Jobs :
          (j # k /\ job[j].created /\ job[k].created)
          => job[j].jobId # job[k].jobId
    /\ \A j \in Jobs : job[j].created => job[j].jobId < nextId
    /\ \A f \in fsys : \A j \in Jobs :
          (job[j].created /\ f.ws = job[j].jobId) => f.content.job = j

\* C15: every file a job has written lies in the workspace directory of
\* that job.
C15_WritesStayInWorkspace ==
    \A f \in fsys : f.ws = job[f.content.job].jobId

\* C16: a result with code 124 and stderr "Time limit exceeded" comes only
\* from a process that exec terminated with SIGTERM at its deadline.
C16_SentinelOnlyOnTimeout ==
    \A j \in Jobs : \A i \in Exited(j) :
        Sentinel(ResultOf(Procs(j)[i], Procs(j)[i].ending, i))
        => /\ Procs(j)[i].killed
           /\ Procs(j)[i].ending.kind = "signal"
           /\ Procs(j)[i].ending.signal = "SIGTERM"

\* the name the i-th submitted file is to be written under, and its place
GivenOrDefault(j, i) ==
    IF job[j].req.files[i] = NoName
    THEN DefaultName(job[j].language)
    ELSE job[j].req.files[i]

PlaceOf(j, i) == PathJoin(job[j].jobId, GivenOrDefault(j, i))

\* C17: the files are written in submission order, each under its given
\* name or the default name of the language; while the job has its
\* workspace, the content at the place of every file written so far is that
\* of the last file written to that place; and no compile or run process
\* exists, and the handler is at no later step, before all files are
\* written.
C17_FilesWrittenInOrder ==
    \A j \in SoloJobs :
        /\ job[j].pc \in {"write", "catch", "awaitCompile", "checkCompile",
                          "run", "awaitRun", "respond"}
           => /\ job[j].fileIdx \in 1..(Len(job[j].req.files) + 1)
              /\ \A i \in 1..(job[j].fileIdx - 1) :
                    LET last == CHOOSE k \in i..(job[j].fileIdx - 1) :
                                  /\ PlaceOf(j, k) = PlaceOf(j, i)
                                  /\ \A m \in (k + 1)..(job[j].fileIdx - 1) :
                                        PlaceOf(j, m) # PlaceOf(j, i)
                    IN  \E f \in fsys :
                          /\ [ws |-> f.ws, sub |-> "", stem |-> f.stem,
                              ext |-> f.ext] = PlaceOf(j, i)
                          /\ f.content = [job |-> j, file |-> last]
              /\ Cardinality({f \in fsys : f.content.job = j})
                    = Cardinality({PlaceOf(j, i) : i \in 1..(job[j].fileIdx - 1)})
        /\ (Procs(j) # <<>>
              \/ job[j].pc \in {"awaitCompile", "checkCompile", "run",
                                "awaitRun", "respond"})
           => job[j].fileIdx = Len(job[j].req.files) + 1

C17_Witness ==
    \E j \in SoloJobs :
        /\ Len(job[j].req.files) = 2
        /\ PlaceOf(j, 1) = PlaceOf(j, 2)
        /\ \E i \in CompileProcs(j) : Procs(j)[i].state = "running"
        /\ \E f \in fsys : f.content = [job |-> j, file |-> 2]

\* C18: no call of runCommand rejects; every process it starts has its
\* standard input ended, after exactly the input text was written to it
\* (nothing for a compile); and every process that ended gave exactly one
\* result.
C18_RunCommandResolvesOnce ==
    \A j \in Jobs :
        /\ ~job[j].rejected
        /\ \A i \in 1..Len(Procs(j)) :
              /\ Procs(j)[i].stdinClosed
              /\ Procs(j)[i].kind = "compile" => Procs(j)[i].stdin = ""
              /\ (Procs(j)[i].kind = "compile" /\ i \in Exited(j))
                 => job[j].compileRes.inv = i
              /\ (Procs(j)[i].kind = "run" /\ i \in Exited(j))
                 => Cardinality({k \in 1..Len(job[j].results) :
                                    job[j].results[k].inv = i}) = 1

\* C19: a job spawns at most one compile process and at most one run
\* process per input, and whenever the handler of a request can take no
\* further step it has sent its response and released the workspace.
C19_EndsRespondedAndReleased ==
    \A j \in SoloJobs :
        /\ Cardinality(CompileProcs(j)) <= 1
        /\ Cardinality(RunProcs(j)) <= Len(job[j].batchInputs)
        /\ (job[j].pc # "idle" /\ ~ENABLED Next)
           => /\ job[j].pc = "done"
              /\ job[j].response.status \in {200, 400, 500}
              /\ job[j].releases = 1

\* Under LiveSpec: a request whose workspace directory was created is
\* answered and its workspace released.
AllocatedJobTerminates ==
    \A j \in SoloJobs :
        (job[j].pc = "check")
        ~> (job[j].pc = "done" /\ job[j].response.status # 0
              /\ job[j].releases = 1)

\* the response of the single-run endpoint to the request of job j, with the
\* outcomes the processes of job j had
FirstResult(j, kind) ==
    LET ps == {i \in Exited(j) : Procs(j)[i].kind = kind}
    IN  IF ps = {} THEN DefaultRun
        ELSE LET i == CHOOSE i \in ps : \A k \in ps : i <= k
             IN  ResultOf(Procs(j)[i], Procs(j)[i].ending, i)

LegacyResponse(j) ==
    LegacyResult(ToLowerCase(job[j].req.language),
                 FirstResult(j, "compile"), FirstResult(j, "run"))

\* C20: for a request without inputs that is answered 200, the compile and
\* the run field are present in the batch response exactly when they are
\* present in the single-run response, and then they are equal.
C20_BackwardCompatible ==
    \A j \in Jobs :
        (job[j].response.status = 200 /\ Len(job[j].req.inputs) = 0)
        => /\ job[j].response.compilePresent = LegacyResponse(j).compilePresent
           /\ LegacyResponse(j).compilePresent
              => job[j].response.compile = LegacyResponse(j).compile
           /\ LegacyResponse(j).runPresent
           /\ job[j].response.run = LegacyResponse(j).run

====
